---- MODULE Spec2Model ----
(***************************************************************************)
(* honeybee_3dm/togeometry.py: conversion of rhino3dm geometry (Brep,      *)
(* Extrusion, Mesh) to Ladybug Face3D objects.                             *)
(*                                                                         *)
(* Every function of the file is a pure, synchronous function of its       *)
(* arguments, so each is an operator and the state machine is the call of  *)
(* to_face3d on one object (Spec) or of remove_dup_vertices on one vertex  *)
(* list (SpecDup).  A function's result is a record whose field `raised`   *)
(* names the exception that left the function ("none" when it returned).   *)
(***************************************************************************)
EXTENDS Integers, Sequences, FiniteSets, TLC

VARIABLES obj, tolerance, raise_exception, pc, lb_face, warned, raised,
          branch, locals, vertices, once, twice

vars == <<obj, tolerance, raise_exception, pc, lb_face, warned, raised,
          branch, locals, vertices, once, twice>>

(***************************************************************************)
(* Bounds of the model.                                                    *)
(***************************************************************************)
\* tolerances are 0..MaxTol
MaxTol == 1
\* an open or solid brep has 1 + (0..MaxExtraFaces) faces
MaxExtraFaces == 1
\* SpecDup: vertex lists of at most MaxLen points on the line x = 0..MaxDupCoord
MaxLen == 4
MaxDupCoord == 4

(***************************************************************************)
(* Points.                                                                 *)
(***************************************************************************)
Abs(n) == IF n < 0 THEN -n ELSE n

\* a rhino3dm point: an object with the attributes X, Y, Z
RhPoint(x, y, z) == [X |-> x, Y |-> y, Z |-> z]

\* to_point3d: Point3D(point.X, point.Y, point.Z); a Point3D is <<x, y, z>>
to_point3d(point) == <<point.X, point.Y, point.Z>>

\* Point3D.is_equivalent, as called by remove_dup_vertices: every coordinate
\* differs by at most the tolerance
is_equivalent(a, b, tol) ==
    /\ Abs(a[1] - b[1]) <= tol
    /\ Abs(a[2] - b[2]) <= tol
    /\ Abs(a[3] - b[3]) <= tol

\* `pts in boundary_pts`: Python list membership, Point3D.__eq__ compares the
\* coordinates exactly (no tolerance)
point_in(pt, pts) == \E k \in 1..Len(pts) : pts[k] = pt

\* remove_dup_vertices: keeps vertices[i] unless it is equivalent to
\* vertices[i - 1] of the INPUT list; vertices[-1] is the last element
remove_dup_vertices(vs, tol) ==
    LET n == Len(vs)
        prev(i) == IF i = 1 THEN vs[n] ELSE vs[i - 1]
        RECURSIVE keep(_)
        keep(i) ==
            IF i > n THEN <<>>
            ELSE (IF is_equivalent(vs[i], prev(i), tol) THEN <<>> ELSE <<vs[i]>>)
                 \o keep(i + 1)
    IN keep(1)

(***************************************************************************)
(* Face3D, meshes.                                                         *)
(***************************************************************************)
Returned(faces) == [raised |-> "none", faces |-> faces]
Raised(exc) == [raised |-> exc, faces |-> <<>>]

\* Face3D(boundary, holes): the constructor called at lines 76, 207 and 230;
\* it refuses a boundary or a hole of fewer than 3 vertices (AssertionError)
Face3D(boundary, holes) ==
    IF Len(boundary) < 3 \/ \E h \in 1..Len(holes) : Len(holes[h]) < 3
    THEN Raised("AssertionError")
    ELSE Returned(<<[boundary |-> boundary, holes |-> holes]>>)

\* what GetMesh gives when the geometry carries no tessellation (None)
NoMesh == [present |-> FALSE, Vertices |-> <<>>, Faces |-> <<>>]

\* the face records mesh_to_face3d visits: range(len(mesh.Faces))
MeshFaceRange_short(mesh) == 1..(Len(mesh.Faces) - 1)

MeshFaceRange(mesh) == 1..Len(mesh.Faces)

\* mesh_to_face3d: one Face3D per face record, of its 4 or (else) first 3
\* vertices; mesh.Vertices of a None mesh raises AttributeError.
\* Face indices are 0-based as in Python.
mesh_to_face3d(mesh) ==
    IF ~mesh.present THEN Raised("AttributeError")
    ELSE
      LET pts == [i \in 1..Len(mesh.Vertices) |-> to_point3d(mesh.Vertices[i])]
          vertsOf(face) ==
              IF Len(face) = 4
              THEN <<pts[face[1] + 1], pts[face[2] + 1],
                     pts[face[3] + 1], pts[face[4] + 1]>>
              ELSE <<pts[face[1] + 1], pts[face[2] + 1], pts[face[3] + 1]>>
          RECURSIVE loop(_, _)
          loop(j, faces) ==
              IF j \notin MeshFaceRange(mesh) THEN Returned(faces)
              ELSE LET f == Face3D(vertsOf(mesh.Faces[j]), <<>>)
                   IN IF f.raised # "none" THEN f
                      ELSE loop(j + 1, faces \o f.faces)
      IN loop(1, <<>>)

\* brep.Faces[i].GetMesh(rhino3dm.MeshType.Any)
GetMesh(face) == face.mesh

\* brep_to_face3d: the mesh polygons of every face of the brep, in face order
brep_to_face3d(brep) ==
    LET RECURSIVE loop(_, _)
        loop(i, faces) ==
            IF i > Len(brep.Faces) THEN Returned(faces)
            ELSE LET m == mesh_to_face3d(GetMesh(brep.Faces[i]))
                 IN IF m.raised # "none" THEN m
                    ELSE loop(i + 1, faces \o m.faces)
    IN loop(1, <<>>)

\* solid_to_face3d: the same loop, for closed breps
solid_to_face3d(brep) ==
    LET RECURSIVE loop(_, _)
        loop(i, faces) ==
            IF i > Len(brep.Faces) THEN Returned(faces)
            ELSE LET m == mesh_to_face3d(GetMesh(brep.Faces[i]))
                 IN IF m.raised # "none" THEN m
                    ELSE loop(i + 1, faces \o m.faces)
    IN loop(1, <<>>)

\* extrusion_to_face3d: the mesh polygons of the extrusion's mesh
extrusion_to_face3d(extrusion) == mesh_to_face3d(extrusion.mesh)

(***************************************************************************)
(* Polyline3D.join_segments (ladybug_geometry), as brep2d_to_face3d calls  *)
(* it on the edges' line segments.                                         *)
(***************************************************************************)
\* LineSegment3D.from_end_points
from_end_points(p1, p2) == [p1 |-> p1, p2 |-> p2]

\* length of the segment a-b.  The code's lengths are floats; the model keeps
\* the integer part, exact whenever the true length is an integer.
SegLength(a, b) ==
    LET d2 == (a[1] - b[1]) * (a[1] - b[1]) + (a[2] - b[2]) * (a[2] - b[2])
              + (a[3] - b[3]) * (a[3] - b[3])
        m == Abs(a[1] - b[1]) + Abs(a[2] - b[2]) + Abs(a[3] - b[3])
    IN CHOOSE r \in 0..m : r * r <= d2 /\ (r + 1) * (r + 1) > d2

\* Polyline3D.length / LineSegment3D.length: the sum of the segment lengths
RECURSIVE PolyLength(_)
PolyLength(vs) ==
    IF Len(vs) < 2 THEN 0
    ELSE SegLength(vs[1], vs[2]) + PolyLength(Tail(vs))

\* a Polyline3D (or LineSegment3D): its vertices and its length
Polyline(vs) == [vertices |-> vs, length |-> PolyLength(vs)]

\* whether a segment continues the polyline at one of its two ends
connects(poly_verts, seg, tol) ==
    \/ is_equivalent(poly_verts[Len(poly_verts)], seg.p1, tol)
    \/ is_equivalent(poly_verts[1], seg.p2, tol)
    \/ is_equivalent(poly_verts[Len(poly_verts)], seg.p2, tol)
    \/ is_equivalent(poly_verts[1], seg.p1, tol)

\* the polyline grown by a segment that connects, first matching case wins
connect_seg_to_poly(poly_verts, seg, tol) ==
    IF is_equivalent(poly_verts[Len(poly_verts)], seg.p1, tol)
    THEN Append(poly_verts, seg.p2)
    ELSE IF is_equivalent(poly_verts[1], seg.p2, tol)
    THEN <<seg.p1>> \o poly_verts
    ELSE IF is_equivalent(poly_verts[Len(poly_verts)], seg.p2, tol)
    THEN Append(poly_verts, seg.p1)
    ELSE <<seg.p2>> \o poly_verts

RemoveAt(s, i) == SubSeq(s, 1, i - 1) \o SubSeq(s, i + 1, Len(s))

\* grow the polyline with the first remaining segment that connects, until
\* none does; gives the vertices and the segments left over
RECURSIVE build_polyline(_, _, _)
build_polyline(poly_verts, other_segs, tol) ==
    LET hits == {i \in 1..Len(other_segs) : connects(poly_verts, other_segs[i], tol)}
    IN IF hits = {} THEN [verts |-> poly_verts, rest |-> other_segs]
       ELSE LET i == CHOOSE k \in hits : \A l \in hits : k <= l
            IN build_polyline(connect_seg_to_poly(poly_verts, other_segs[i], tol),
                              RemoveAt(other_segs, i), tol)

\* the vertex groups: a polyline from the base segment, then the next
\* remaining segment becomes the base; a lone last segment is its own group
RECURSIVE group_loop(_, _, _, _)
group_loop(base_seg, remain_segs, grouped, tol) ==
    IF Len(remain_segs) = 0 THEN grouped
    ELSE LET b == build_polyline(<<base_seg.p1, base_seg.p2>>, remain_segs, tol)
             g == Append(grouped, b.verts)
         IN IF Len(b.rest) > 1
            THEN group_loop(b.rest[1], Tail(b.rest), g, tol)
            ELSE IF Len(b.rest) = 1
            THEN Append(g, <<b.rest[1].p1, b.rest[1].p2>>)
            ELSE g

\* join_segments: segments[0] of an empty list raises IndexError
join_segments(segments, tol) ==
    IF Len(segments) = 0 THEN [raised |-> "IndexError", polylines |-> <<>>]
    ELSE LET grouped == group_loop(segments[1], Tail(segments), <<>>, tol)
         IN [raised |-> "none",
             polylines |-> [k \in 1..Len(grouped) |-> Polyline(grouped[k])]]

\* sorted(polylines, key=length): ascending, stable
RECURSIVE SortedByLength(_)
SortedByLength(ps) ==
    IF ps = <<>> THEN <<>>
    ELSE LET rest == SortedByLength(Tail(ps))
             lower == SelectSeq(rest, LAMBDA q : q.length < Head(ps).length)
             upper == SelectSeq(rest, LAMBDA q : q.length >= Head(ps).length)
         IN lower \o <<Head(ps)>> \o upper

Reverse(s) == [i \in 1..Len(s) |-> s[Len(s) + 1 - i]]

\* the sort without the reverse() of line 186
sorted_polylines_ascending(polylines) == SortedByLength(polylines)

\* lines 183-186: sorted by length, then reversed: longest first
sorted_polylines_of(polylines) == Reverse(SortedByLength(polylines))

(***************************************************************************)
(* brep2d_to_face3d.                                                       *)
(***************************************************************************)
WarnCurved == "The surface has curved edges. It will be meshed."
WarnNonPlanar == "Non-planar Breps are not handled by Honeybee. They are ignored."
WarnTouch == "The surface has holes that touch the boundary. It will be meshed"
WarnUnsupported == "Unsupported object type"

NoLocals == [lines |-> <<>>, polylines |-> <<>>, sorted_polylines |-> <<>>,
             mesh_pts |-> <<>>, boundary_pts |-> <<>>, hole_pts |-> <<>>]

\* the result of a call: what is returned (faces) or raised, the warnings
\* emitted, the return statement taken, and the locals at that point
Outcome(res, warnings, br, loc) ==
    [faces |-> res.faces, raised |-> res.raised, warnings |-> warnings,
     branch |-> br, locals |-> loc]

\* Check 01 with the count compared to 1 instead of 0
has_curved_edge_two(brep, tol) ==
    Cardinality({i \in 1..Len(brep.Edges) : ~brep.Edges[i].IsLinear}) > 1

\* Check 01, lines 160-165: not_line > 0, the number of edges whose
\* IsLinear(tolerance) is False
has_curved_edge(brep, tol) ==
    Cardinality({i \in 1..Len(brep.Edges) : ~brep.Edges[i].IsLinear}) > 0

\* the mesh shortcut taken for triangles only
is_simple_mesh_tri(mesh_pts) == Len(mesh_pts) = 3

\* line 202: len(mesh_pts) == 4 or len(mesh_pts) == 3
is_simple_mesh(mesh_pts) == Len(mesh_pts) = 4 \/ Len(mesh_pts) = 3

\* lines 218-221: the hole vertices that are members of boundary_pts
hole_pts_on_boundary(hole_pts, boundary_pts) ==
    LET RECURSIVE flat(_)
        flat(k) == IF k > Len(hole_pts) THEN <<>> ELSE hole_pts[k] \o flat(k + 1)
    IN SelectSeq(flat(1), LAMBDA p : point_in(p, boundary_pts))

\* lines 199-231, once the mesh vertices are read
brep2d_faces(brep, tol, mesh, loc0) ==
    LET sp == loc0.sorted_polylines
        mesh_pts == loc0.mesh_pts
    IN IF Len(sp) = 1
       THEN IF is_simple_mesh(mesh_pts)
            THEN Outcome(mesh_to_face3d(mesh), <<>>, "shortcut", loc0)
            ELSE LET boundary_pts == remove_dup_vertices(sp[1].vertices, tol)
                 IN Outcome(Face3D(boundary_pts, <<>>), <<>>, "simple",
                            [loc0 EXCEPT !.boundary_pts = boundary_pts])
       ELSE IF Len(sp) > 1
       THEN LET boundary_pts == remove_dup_vertices(sp[1].vertices, tol)
                hole_pts == [k \in 1..(Len(sp) - 1) |->
                                remove_dup_vertices(sp[k + 1].vertices, tol)]
                loc == [loc0 EXCEPT !.boundary_pts = boundary_pts,
                                    !.hole_pts = hole_pts]
            IN IF Len(hole_pts_on_boundary(hole_pts, boundary_pts)) > 0
               THEN Outcome(brep_to_face3d(brep), <<WarnTouch>>, "touch_mesh", loc)
               ELSE Outcome(Face3D(boundary_pts, hole_pts), <<>>, "holes", loc)
       ELSE Outcome(Returned(<<>>), <<>>, "no_polyline", loc0)

brep2d_to_face3d(brep, tol) ==
    IF has_curved_edge(brep, tol)
    THEN Outcome(brep_to_face3d(brep), <<WarnCurved>>, "curved_mesh", NoLocals)
    ELSE
      LET lines == [i \in 1..Len(brep.Edges) |->
                       from_end_points(to_point3d(brep.Edges[i].PointAtStart),
                                       to_point3d(brep.Edges[i].PointAtEnd))]
          joined == join_segments(lines, tol)
          loc1 == [NoLocals EXCEPT !.lines = lines]
      IN IF joined.raised # "none"
         THEN Outcome(Raised(joined.raised), <<>>, "raised", loc1)
         ELSE
           LET loc2 == [loc1 EXCEPT !.polylines = joined.polylines,
                           !.sorted_polylines = sorted_polylines_of(joined.polylines)]
               mesh == GetMesh(brep.Faces[1])
           IN IF ~mesh.present
              THEN Outcome(Returned(<<>>), <<WarnNonPlanar>>, "no_mesh", loc2)
              ELSE brep2d_faces(brep, tol, mesh,
                      [loc2 EXCEPT !.mesh_pts =
                          [i \in 1..Len(mesh.Vertices) |-> to_point3d(mesh.Vertices[i])]])

(***************************************************************************)
(* The objects to_face3d is called on.                                     *)
(***************************************************************************)
\* outlines, as (x, y) corner lists; every edge has an integer length
OuterSquare == << <<10, 0>>, <<10, 10>>, <<0, 10>>, <<0, 0>> >>
OuterTriangle == << <<3, 0>>, <<0, 4>>, <<0, 0>> >>
\* an interior hole, 2 away from the boundary corner (10, 10)
HoleIn == << <<6, 6>>, <<8, 6>>, <<8, 8>>, <<6, 8>> >>
\* a hole whose corner (1, 1) is 1 away from the boundary corner (0, 0)
HoleNear == << <<1, 1>>, <<4, 1>>, <<4, 4>>, <<1, 4>> >>
\* a hole whose corner (0, 10) is a boundary corner
HoleTouch == << <<0, 10>>, <<0, 7>>, <<3, 7>>, <<3, 10>> >>
\* a hole with edges of length 1
HoleTiny == << <<5, 5>>, <<6, 5>>, <<6, 6>>, <<5, 6>> >>

Shapes == {"quad", "tri", "quadArc", "holeIn", "holeNear", "holeTouch",
           "twoHoles", "twoHolesArc", "holeTiny", "equalHoles"}
ExtraShapes == {"quad", "tri"}

\* the loops (outline first) of a shape
LoopsOf(shape) ==
    CASE shape = "quad" -> <<OuterSquare>>
      [] shape = "tri" -> <<OuterTriangle>>
      [] shape = "quadArc" -> <<OuterSquare>>
      [] shape = "holeIn" -> <<OuterSquare, HoleIn>>
      [] shape = "holeNear" -> <<OuterSquare, HoleNear>>
      [] shape = "holeTouch" -> <<OuterSquare, HoleTouch>>
      [] shape = "twoHoles" -> <<OuterSquare, HoleIn, HoleNear>>
      [] shape = "twoHolesArc" -> <<OuterSquare, HoleIn, HoleNear>>
      [] shape = "holeTiny" -> <<OuterSquare, HoleTiny>>
      [] shape = "equalHoles" -> <<OuterSquare, HoleNear, HoleTouch>>

\* the shapes whose first edge is an arc
Arc(shape) == shape \in {"quadArc", "twoHolesArc"}

\* the edges of one closed loop in the plane z, bounding face number f
LoopEdges(loop, z, f, arc) ==
    [i \in 1..Len(loop) |->
        LET a == loop[i]
            b == loop[(i % Len(loop)) + 1]
        IN [PointAtStart |-> RhPoint(a[1], a[2], z),
            PointAtEnd |-> RhPoint(b[1], b[2], z),
            IsLinear |-> ~(arc /\ i = 1),
            face |-> f]]

\* the edges of a face of the given shape: its outline, then its holes
ShapeEdges(shape, z, f) ==
    LET loops == LoopsOf(shape)
        RECURSIVE all(_)
        all(k) ==
            IF k > Len(loops) THEN <<>>
            ELSE LoopEdges(loops[k], z, f, Arc(shape) /\ k = 1) \o all(k + 1)
    IN all(1)

MeshKinds == {"none", "quad", "quadTris", "tri", "fan"}
ExtraMeshKinds == {"none", "quad", "fan"}

\* a tessellation in the plane z: a single quad, the quad as two triangles,
\* a single triangle, a fan of four triangles around the centre, or none
MeshOf(kind, z) ==
    LET corners(loop) == [i \in 1..Len(loop) |-> RhPoint(loop[i][1], loop[i][2], z)]
    IN CASE kind = "none" -> NoMesh
         [] kind = "quad" ->
              [present |-> TRUE, Vertices |-> corners(OuterSquare),
               Faces |-> << <<0, 1, 2, 3>> >>]
         [] kind = "quadTris" ->
              [present |-> TRUE, Vertices |-> corners(OuterSquare),
               Faces |-> << <<0, 1, 2>>, <<0, 2, 3>> >>]
         [] kind = "tri" ->
              [present |-> TRUE, Vertices |-> corners(OuterTriangle),
               Faces |-> << <<0, 1, 2>> >>]
         [] kind = "fan" ->
              [present |-> TRUE,
               Vertices |-> Append(corners(OuterSquare), RhPoint(5, 5, z)),
               Faces |-> << <<0, 1, 4>>, <<1, 2, 4>>, <<2, 3, 4>>, <<3, 0, 4>> >>]

\* face number f of a brep lies in the plane z = 20 * (f - 1)
PlaneOf(f) == 20 * (f - 1)

\* face blueprints: a shape and a tessellation
FirstFaces == Shapes \X MeshKinds
ExtraFaces == ExtraShapes \X ExtraMeshKinds

BlueprintLists ==
    UNION {[1..(1 + n) -> FirstFaces \cup ExtraFaces] : n \in 0..MaxExtraFaces}

\* the blueprint lists whose faces after the first are ExtraFaces
Blueprints ==
    {bl \in BlueprintLists :
        /\ bl[1] \in FirstFaces
        /\ \A f \in 2..Len(bl) : bl[f] \in ExtraFaces}

BrepOf(bl, solid) ==
    LET RECURSIVE edges(_)
        edges(f) ==
            IF f > Len(bl) THEN <<>>
            ELSE ShapeEdges(bl[f][1], PlaneOf(f), f) \o edges(f + 1)
    IN [ObjectType |-> "Brep", IsSolid |-> solid, Edges |-> edges(1),
        Faces |-> [f \in 1..Len(bl) |-> [mesh |-> MeshOf(bl[f][2], PlaneOf(f))]],
        mesh |-> NoMesh]

\* ObjectType values without a conversion
OtherTypes == {"Curve", "Point"}

Objects ==
    {BrepOf(bl, solid) : bl \in Blueprints, solid \in BOOLEAN}
    \cup {[ObjectType |-> "Extrusion", IsSolid |-> FALSE, Edges |-> <<>>,
           Faces |-> <<>>, mesh |-> MeshOf(k, 0)] : k \in MeshKinds}
    \cup {[ObjectType |-> "Mesh", IsSolid |-> FALSE, Edges |-> <<>>,
           Faces |-> <<>>, mesh |-> MeshOf(k, 0)] : k \in MeshKinds \ {"none"}}
    \cup {[ObjectType |-> t, IsSolid |-> FALSE, Edges |-> <<>>,
           Faces |-> <<>>, mesh |-> NoMesh] : t \in OtherTypes}

(***************************************************************************)
(* to_face3d(obj, tolerance=..., raise_exception=...).                     *)
(***************************************************************************)
Init ==
    /\ obj \in Objects
    /\ tolerance \in 0..MaxTol
    /\ raise_exception \in BOOLEAN
    /\ pc = "call"
    /\ lb_face = <<>>
    /\ warned = <<>>
    /\ raised = "none"
    /\ branch = "none"
    /\ locals = NoLocals
    /\ vertices = <<>>
    /\ once = <<>>
    /\ twice = <<>>

\* the call ends: lb_face is returned, or the exception leaves to_face3d
Finish(out) ==
    /\ pc' = IF out.raised = "none" THEN "returned" ELSE "raised"
    /\ lb_face' = out.faces
    /\ warned' = out.warnings
    /\ raised' = out.raised
    /\ branch' = out.branch
    /\ locals' = out.locals
    /\ UNCHANGED <<obj, tolerance, raise_exception, vertices, once, twice>>

\* the unsupported branch that only ever warns
unsupported_raises_never(flag) == FALSE

\* line 306: if raise_exception
unsupported_raises(flag) == flag

\* lines 294-296
ConvertSolid ==
    /\ pc = "call"
    /\ obj.ObjectType = "Brep"
    /\ obj.IsSolid
    /\ Finish(Outcome(solid_to_face3d(obj), <<>>, "solid", NoLocals))

\* lines 294, 297-298
ConvertBrep2d ==
    /\ pc = "call"
    /\ obj.ObjectType = "Brep"
    /\ ~obj.IsSolid
    /\ Finish(brep2d_to_face3d(obj, tolerance))

\* lines 300-301
ConvertExtrusion ==
    /\ pc = "call"
    /\ obj.ObjectType = "Extrusion"
    /\ Finish(Outcome(extrusion_to_face3d(obj), <<>>, "extrusion", NoLocals))

\* lines 303-304
ConvertMesh ==
    /\ pc = "call"
    /\ obj.ObjectType = "Mesh"
    /\ Finish(Outcome(mesh_to_face3d(obj.mesh), <<>>, "mesh", NoLocals))

\* lines 305-307
RaiseUnsupported ==
    /\ pc = "call"
    /\ obj.ObjectType \notin {"Brep", "Extrusion", "Mesh"}
    /\ unsupported_raises(raise_exception)
    /\ Finish(Outcome(Raised("ValueError"), <<>>, "unsupported", NoLocals))

\* lines 305-306, 308-311
WarnAndSkip ==
    /\ pc = "call"
    /\ obj.ObjectType \notin {"Brep", "Extrusion", "Mesh"}
    /\ ~unsupported_raises(raise_exception)
    /\ Finish(Outcome(Returned(<<>>), <<WarnUnsupported>>, "unsupported", NoLocals))

Next ==
    \/ ConvertSolid
    \/ ConvertBrep2d
    \/ ConvertExtrusion
    \/ ConvertMesh
    \/ RaiseUnsupported
    \/ WarnAndSkip

Spec == Init /\ [][Next]_vars

(***************************************************************************)
(* remove_dup_vertices on its own: applied once, then to its own result.   *)
(***************************************************************************)
DupPoints == {<<x, 0, 0>> : x \in 0..MaxDupCoord}

DupLists == UNION {[1..n -> DupPoints] : n \in 0..MaxLen}

InitDup ==
    /\ vertices \in DupLists
    /\ tolerance \in 0..MaxTol
    /\ pc = "dup0"
    /\ once = <<>>
    /\ twice = <<>>
    /\ obj = [ObjectType |-> "Point", IsSolid |-> FALSE, Edges |-> <<>>,
              Faces |-> <<>>, mesh |-> NoMesh]
    /\ raise_exception = TRUE
    /\ lb_face = <<>>
    /\ warned = <<>>
    /\ raised = "none"
    /\ branch = "none"
    /\ locals = NoLocals

RemoveDup ==
    /\ pc = "dup0"
    /\ once' = remove_dup_vertices(vertices, tolerance)
    /\ pc' = "dup1"
    /\ UNCHANGED <<obj, tolerance, raise_exception, lb_face, warned, raised,
                   branch, locals, vertices, twice>>

RemoveDupAgain ==
    /\ pc = "dup1"
    /\ twice' = remove_dup_vertices(once, tolerance)
    /\ pc' = "dup2"
    /\ UNCHANGED <<obj, tolerance, raise_exception, lb_face, warned, raised,
                   branch, locals, vertices, once>>

NextDup ==
    \/ RemoveDup
    \/ RemoveDupAgain

SpecDup == InitDup /\ [][NextDup]_vars

(***************************************************************************)
(* Properties.                                                             *)
(***************************************************************************)
Range(s) == {s[i] : i \in 1..Len(s)}

\* to_face3d was called on an open (non-solid) brep: brep2d_to_face3d ran
OpenBrep == obj.ObjectType = "Brep" /\ ~obj.IsSolid

Called == pc \in {"returned", "raised"}

AllLinear(brep) == \A i \in 1..Len(brep.Edges) : brep.Edges[i].IsLinear

AllTessellated(brep) == \A f \in 1..Len(brep.Faces) : GetMesh(brep.Faces[f]).present

\* the polygons of a tessellation: per face record, the vertices it indexes
MeshPolygons(mesh) ==
    [j \in 1..Len(mesh.Faces) |->
        [boundary |-> [k \in 1..Len(mesh.Faces[j]) |->
                          <<mesh.Vertices[mesh.Faces[j][k] + 1].X,
                            mesh.Vertices[mesh.Faces[j][k] + 1].Y,
                            mesh.Vertices[mesh.Faces[j][k] + 1].Z>>],
         holes |-> <<>>]]

\* the polygons of the tessellations of all faces of a brep, in face order
RECURSIVE TessellationFrom(_, _)
TessellationFrom(brep, f) ==
    IF f > Len(brep.Faces) THEN <<>>
    ELSE MeshPolygons(GetMesh(brep.Faces[f])) \o TessellationFrom(brep, f + 1)

Tessellation(brep) == TessellationFrom(brep, 1)

\* some vertex of some hole ring is within the tolerance of a boundary vertex
TolTouch(holes, boundary, tol) ==
    \E h \in 1..Len(holes) : \E i \in 1..Len(holes[h]) : \E k \in 1..Len(boundary) :
        is_equivalent(holes[h][i], boundary[k], tol)

\* C1: with all edges linear and more than one polyline, whenever a vertex of
\* a de-duplicated hole ring is within the tolerance of a vertex of the
\* de-duplicated boundary ring, the result is the mesh fallback and holds no
\* polygon with holes.
C1_TouchingHoleIsMeshed ==
    (/\ OpenBrep
     /\ pc = "returned"
     /\ AllLinear(obj)
     /\ Len(locals.sorted_polylines) > 1
     /\ TolTouch(locals.hole_pts, locals.boundary_pts, tolerance))
    => (/\ branch = "touch_mesh"
        /\ \A i \in 1..Len(lb_face) : lb_face[i].holes = <<>>)

\* C2: the result of remove_dup_vertices is no longer than its input and has
\* no two adjacent points within the tolerance of each other.
C2_NoAdjacentDuplicates ==
    pc \in {"dup1", "dup2"} =>
        /\ Len(once) <= Len(vertices)
        /\ \A i \in 1..(Len(once) - 1) :
              ~is_equivalent(once[i], once[i + 1], tolerance)

\* C3: remove_dup_vertices is idempotent: applied to its own result it gives
\* that result again.
C3_Idempotent == pc = "dup2" => twice = once

\* C4: no failure inside brep2d_to_face3d reaches the caller of to_face3d:
\* the call on an open brep never ends with an exception.
C4_NoErrorReachesCaller == OpenBrep => pc # "raised"

\* C5: on an unsupported object type to_face3d raises ValueError and returns
\* nothing when raise_exception is set, and otherwise emits exactly the
\* unsupported-type warning and returns an empty list; on Brep, Extrusion and
\* Mesh neither the ValueError nor that warning occurs.
C5_UnsupportedPolicy ==
    Called =>
        IF obj.ObjectType \notin {"Brep", "Extrusion", "Mesh"}
        THEN IF raise_exception
             THEN pc = "raised" /\ raised = "ValueError"
                  /\ lb_face = <<>> /\ warned = <<>>
             ELSE pc = "returned" /\ raised = "none"
                  /\ lb_face = <<>> /\ warned = <<WarnUnsupported>>
        ELSE raised # "ValueError" /\ WarnUnsupported \notin Range(warned)

C5_Witness ==
    /\ pc = "returned"
    /\ obj.ObjectType = "Curve"
    /\ ~raise_exception
    /\ warned = <<WarnUnsupported>>
    /\ lb_face = <<>>

DistinctLengths(ps) ==
    \A i, j \in 1..Len(ps) : i # j => ps[i].length # ps[j].length

\* the k-th longest of polylines with distinct lengths
KthLongest(ps, k) ==
    CHOOSE p \in Range(ps) :
        Cardinality({q \in Range(ps) : q.length > p.length}) = k - 1

\* C7: when the joined polylines have pairwise distinct lengths, the boundary
\* ring is built from the longest polyline and the hole rings from the others
\* in strictly descending length; one polyline gives no hole.
C7_LongestIsBoundary ==
    (/\ OpenBrep
     /\ Called
     /\ locals.polylines # <<>>
     /\ DistinctLengths(locals.polylines)) =>
        LET ps == locals.polylines
            sp == locals.sorted_polylines
        IN /\ Len(sp) = Len(ps)
           /\ \A k \in 1..Len(ps) : sp[k] = KthLongest(ps, k)
           /\ \A k \in 1..(Len(sp) - 1) : sp[k].length > sp[k + 1].length
           /\ branch \in {"simple", "holes", "touch_mesh"} =>
                 /\ locals.boundary_pts =
                       remove_dup_vertices(KthLongest(ps, 1).vertices, tolerance)
                 /\ Len(locals.hole_pts) = Len(ps) - 1
                 /\ \A k \in 1..(Len(ps) - 1) :
                       locals.hole_pts[k] =
                          remove_dup_vertices(KthLongest(ps, k + 1).vertices, tolerance)
           /\ (branch = "holes" /\ pc = "returned") =>
                 /\ lb_face[1].boundary = locals.boundary_pts
                 /\ lb_face[1].holes = locals.hole_pts
           /\ (branch = "simple" /\ pc = "returned") =>
                 /\ lb_face[1].boundary = locals.boundary_pts
                 /\ lb_face[1].holes = <<>>

\* three polylines joined in an order that is not by descending length
C7_Witness ==
    /\ OpenBrep
    /\ pc = "returned"
    /\ branch = "holes"
    /\ Len(locals.polylines) = 3
    /\ DistinctLengths(locals.polylines)
    /\ locals.polylines[2].length < locals.polylines[3].length
    /\ Len(lb_face[1].holes) = 2

\* all edges linear, one polyline, a tessellation of 3 or 4 vertices
ShortcutCase ==
    /\ OpenBrep
    /\ Called
    /\ AllLinear(obj)
    /\ Len(locals.polylines) = 1
    /\ GetMesh(obj.Faces[1]).present
    /\ Len(GetMesh(obj.Faces[1]).Vertices) \in {3, 4}

\* C8 as stated: the result is exactly one polygon, of as many vertices as
\* the tessellation (4, or 3), and no ring was built.
C8_OnePolygon ==
    ShortcutCase =>
        /\ pc = "returned"
        /\ branch = "shortcut"
        /\ Len(lb_face) = 1
        /\ Len(lb_face[1].boundary) = Len(GetMesh(obj.Faces[1]).Vertices)
        /\ locals.boundary_pts = <<>>

\* C8 (amended): the result is exactly the polygons of the tessellation's face
\* records, each of 3 or 4 vertices, in face order, taken by the mesh
\* shortcut; no ring was built and no polygon has holes.
C8_MeshShortcut ==
    ShortcutCase =>
        /\ pc = "returned"
        /\ branch = "shortcut"
        /\ lb_face = MeshPolygons(GetMesh(obj.Faces[1]))
        /\ \A i \in 1..Len(lb_face) :
              /\ Len(lb_face[i].boundary) \in {3, 4}
              /\ lb_face[i].holes = <<>>
        /\ locals.boundary_pts = <<>>

\* a 4-vertex tessellation of two triangles goes through the shortcut
C8_Witness ==
    /\ ShortcutCase
    /\ pc = "returned"
    /\ branch = "shortcut"
    /\ Len(GetMesh(obj.Faces[1]).Vertices) = 4
    /\ Len(lb_face) = 2

\* a well-formed surface: every face carries a tessellation with at least one
\* face record, there are at least 3 edges, and no edge is so short that its
\* end points are within the tolerance of each other
WellFormed(brep, tol) ==
    /\ \A f \in 1..Len(brep.Faces) :
          /\ GetMesh(brep.Faces[f]).present
          /\ Len(GetMesh(brep.Faces[f]).Faces) > 0
    /\ Len(brep.Edges) >= 3
    /\ \A i \in 1..Len(brep.Edges) :
          ~is_equivalent(to_point3d(brep.Edges[i].PointAtStart),
                         to_point3d(brep.Edges[i].PointAtEnd), tol)

\* the terminal outcome a return statement of brep2d_to_face3d stands for
TerminalOutcome(br) ==
    CASE br \in {"curved_mesh", "touch_mesh"} -> "MESH_FALLBACK"
      [] br \in {"shortcut", "simple"} -> "SIMPLE_FACE"
      [] br = "holes" -> "FACE_WITH_HOLES"
      [] OTHER -> "NO_RESULT"

\* C9: on a well-formed surface brep2d_to_face3d returns, through one of
\* MESH_FALLBACK, SIMPLE_FACE and FACE_WITH_HOLES, a non-empty list.
C9_NonEmptyTerminal ==
    (OpenBrep /\ Called /\ WellFormed(obj, tolerance)) =>
        /\ pc = "returned"
        /\ TerminalOutcome(branch) \in {"MESH_FALLBACK", "SIMPLE_FACE", "FACE_WITH_HOLES"}
        /\ lb_face # <<>>

C9_Witness ==
    /\ OpenBrep
    /\ WellFormed(obj, tolerance)
    /\ pc = "returned"
    /\ TerminalOutcome(branch) = "FACE_WITH_HOLES"
    /\ Len(lb_face) = 1
    /\ Len(lb_face[1].holes) = 1

\* constituent surface f of a brep on its own: its edges and its tessellation
SurfaceOf(brep, f) ==
    [brep EXCEPT !.Edges = SelectSeq(brep.Edges, LAMBDA e : e.face = f),
                 !.Faces = <<brep.Faces[f]>>]

RECURSIVE PerSurfaceFrom(_, _, _)
PerSurfaceFrom(brep, tol, f) ==
    IF f > Len(brep.Faces) THEN <<>>
    ELSE brep2d_to_face3d(SurfaceOf(brep, f), tol).faces
         \o PerSurfaceFrom(brep, tol, f + 1)

\* C10: on an open brep the result is the concatenation, in surface order, of
\* the planar reconstruction of each constituent surface from its own edges
\* and tessellation; a solid brep never goes through planar reconstruction.
C10_PerSurfaceConcatenation ==
    /\ (/\ OpenBrep
        /\ Called
        /\ AllTessellated(obj)
        /\ \A f \in 1..Len(obj.Faces) :
              brep2d_to_face3d(SurfaceOf(obj, f), tolerance).raised = "none")
       => (pc = "returned" /\ lb_face = PerSurfaceFrom(obj, tolerance, 1))
    /\ (Called /\ obj.ObjectType = "Brep" /\ obj.IsSolid)
       => (branch = "solid" /\ locals = NoLocals)

====
